---- MODULE Spec2Model ----
(***************************************************************************)
(* Transcript segment normalization and the video record's life cycle of   *)
(* the clip backend: processVideo (controllers/videosController),          *)
(* GET /:videoId/transcript (routes/videoRoutes.js) and the pre-save hook  *)
(* of the UploadedVideo schema (model/uploadVideosSchema.js).              *)
(*                                                                         *)
(* Numbers.  A JavaScript number is modelled in fixed point: an integer    *)
(* count of microseconds (Scale units per second), so that toFixed(3) and  *)
(* the division by 1000 are computed, not assumed.  A JavaScript value is  *)
(* a record [t, v]: t is "num", "nan", "undef" (undefined or null), "str"  *)
(* (a string that converts to the number v) or "text" (a string that       *)
(* converts to NaN).                                                       *)
(***************************************************************************)
EXTENDS Integers, Sequences, FiniteSets, TLC

\* Units of the fixed-point representation per second.
Scale == 1000 * 1000

\* One millisecond, the grid toFixed(3) rounds to.
Milli == Scale \div 1000

\* The magnitude above which a timestamp is taken to be milliseconds,
\* and the divisor applied to it (the source writes 1000 for both).
MS_THRESHOLD == 1000

\* How many normalizations may be applied in a row to one segment.
MaxApply == 2

(***************************************************************************)
(* JavaScript values and the operators the code applies to them.           *)
(***************************************************************************)
Num(n) == [t |-> "num", v |-> n]

NaN == [t |-> "nan", v |-> 0]

Undefined == [t |-> "undef", v |-> 0]

Str(n) == [t |-> "str", v |-> n]

Text == [t |-> "text", v |-> 0]

Sec(n) == Num(n * Scale)

\* ToNumber, as the relational and arithmetic operators apply it.
ToNumber(x) ==
    CASE x.t = "num" -> x
      [] x.t = "str" -> Num(x.v)
      [] OTHER -> NaN

\* a ?? b
Coalesce(a, b) == IF a.t = "undef" THEN b ELSE a

\* typeof x === 'number'
TypeofNumber(x) == x.t \in {"num", "nan"}

\* a > b, a < b, a <= b: false as soon as one side converts to NaN.
Gt(a, b) ==
    LET na == ToNumber(a)
        nb == ToNumber(b)
    IN  na.t = "num" /\ nb.t = "num" /\ na.v > nb.v

Lt(a, b) == Gt(b, a)

Le(a, b) ==
    LET na == ToNumber(a)
        nb == ToNumber(b)
    IN  na.t = "num" /\ nb.t = "num" /\ na.v <= nb.v

\* a / 1000
DivThousand(a) ==
    LET na == ToNumber(a)
    IN  IF na.t = "num" THEN Num(na.v \div MS_THRESHOLD) ELSE NaN

\* a - b and a + 1
Minus(a, b) ==
    LET na == ToNumber(a)
        nb == ToNumber(b)
    IN  IF na.t = "num" /\ nb.t = "num" THEN Num(na.v - nb.v) ELSE NaN

PlusOne(a) == IF a.t = "num" THEN Num(a.v + Scale) ELSE NaN

\* Rounding of a fixed-point number to 3 decimals, half away from zero,
\* as Number.prototype.toFixed does.
Round3(n) ==
    IF n >= 0
    THEN ((n + Milli \div 2) \div Milli) * Milli
    ELSE 0 - (((0 - n + Milli \div 2) \div Milli) * Milli)

\* Number(x.toFixed(3)) for x of type number.
ToFixed3(x) == IF x.t = "num" THEN Num(Round3(x.v)) ELSE NaN

\* Truthiness of a number: neither 0 nor NaN.
Truthy(x) == x.t = "num" /\ x.v # 0

\* `segment-${index}`, index counted from 0 as Array.prototype.map does.
SegmentId(index) == "segment-" \o ToString(index)

(***************************************************************************)
(* The steps of segment normalization.  processVideo and the transcript    *)
(* route carry the same lines; the pre-save hook has its own.              *)
(***************************************************************************)
\* A plausible slip: the conversion left out.
ConvertMsSkipped(x) == x

\* A plausible slip: `>=` for `>`, so that exactly 1000 s is divided too.
ConvertMsInclusive(x) ==
    IF ~Lt(x, Sec(MS_THRESHOLD)) /\ ToNumber(x).t = "num" THEN DivThousand(x) ELSE x

\* if (x > 1000) x /= 1000
ConvertMs(x) == IF Gt(x, Sec(MS_THRESHOLD)) THEN DivThousand(x) ELSE x


\* if (typeof start !== 'number' || start < 0) start = 0
ValidStart(start) ==
    IF ~TypeofNumber(start) \/ Lt(start, Num(0)) THEN Num(0) ELSE start

\* A plausible slip: `<` for `<=`, so that end = start is left alone.
ValidEndStrict(end, start) ==
    IF ~TypeofNumber(end) \/ Lt(end, start) THEN PlusOne(start) ELSE end

\* if (typeof end !== 'number' || end <= start) end = start + 1
ValidEnd(end, start) ==
    IF ~TypeofNumber(end) \/ Le(end, start) THEN PlusOne(start) ELSE end

\* if (video.duration && end > video.duration) end = video.duration
ClampEnd(end, videoDuration) ==
    IF Truthy(videoDuration) /\ Gt(end, videoDuration) THEN videoDuration ELSE end

\* id: segment.id || `segment-${index}`
AssignId(segment, index) == IF segment.id # "" THEN segment.id ELSE SegmentId(index)

\* The object a normalizer returns; startTime and endTime are not copied.
Segment(id, text, start, end, duration) ==
    [id |-> id, text |-> text, start |-> start, end |-> end,
     duration |-> duration, startTime |-> Undefined, endTime |-> Undefined]

\* processVideo: the callback of transcript.segments.map.
NormalizeProcessVideo(segment, index) ==
    LET start0 == Coalesce(segment.start, Coalesce(segment.startTime, Num(0)))
        end0 == Coalesce(segment.end, Coalesce(segment.endTime, Num(0)))
        start == ValidStart(ConvertMs(start0))
        end == ValidEnd(ConvertMs(end0), start)
    IN  Segment(AssignId(segment, index), segment.text,
                ToFixed3(start), ToFixed3(end), ToFixed3(Minus(end, start)))

\* GET /:videoId/transcript: the callback of video.transcript.segments.map.
NormalizeGetTranscript(segment, index, videoDuration) ==
    LET start0 == Coalesce(segment.start, Coalesce(segment.startTime, Num(0)))
        end0 == Coalesce(segment.end, Coalesce(segment.endTime, Num(0)))
        start == ValidStart(ConvertMs(start0))
        end == ClampEnd(ValidEnd(ConvertMs(end0), start), videoDuration)
    IN  Segment(AssignId(segment, index), segment.text,
                ToFixed3(start), ToFixed3(end), ToFixed3(Minus(end, start)))

\* The getter of the schema's duration path: Number((v || 0).toFixed(3)).
DurationGetter(v) == IF Truthy(v) THEN ToFixed3(v) ELSE Num(0)

\* videoSchema.pre('save'): the callback of this.transcript.segments.forEach.
\* It assigns start, end and duration of the stored segment in place.
PreSaveSegment(segment, storedDuration) ==
    LET start == ConvertMs(segment.start)
        end1 == ConvertMs(segment.end)
        end2 == IF Le(end1, start) THEN PlusOne(start) ELSE end1
        docDuration == DurationGetter(storedDuration)
        clamp == Truthy(docDuration) /\ Gt(end2, docDuration)
        end == IF clamp THEN docDuration ELSE end2
    IN  [segment EXCEPT !.start = start, !.end = end,
                        !.duration = ToFixed3(Minus(end, start))]

\* What schema validation lets through to the pre-save hook: start and end
\* are required numbers with min 0, duration a number with min 0 when set.
PassesValidation(segment) ==
    /\ segment.start.t = "num" /\ segment.start.v >= 0
    /\ segment.end.t = "num" /\ segment.end.v >= 0
    /\ \/ segment.duration.t = "undef"
       \/ segment.duration.t = "num" /\ segment.duration.v >= 0

(***************************************************************************)
(* State.                                                                  *)
(***************************************************************************)
VARIABLES
    segIn,        \* the raw segment handed to the first normalization
    segArg,       \* the argument of the latest normalization
    segOut,       \* the result of the latest normalization
    applied,      \* the normalizations applied so far, in order
    vidDuration,  \* the duration of the video the segment belongs to (0: unknown)
    video,        \* the UploadedVideo document of one video
    deployed,     \* which processVideo the routes load: "current" or "legacy"
    pvPc,         \* where the processVideo run stands
    pvGot,        \* TRUE when generateTranscript returned in this run
    pvTranscript, \* what generateTranscript returned
    pvError,      \* the message of the error the run threw
    pvOutcome,    \* how the latest run settled: "resolved" or "rejected"
    getStatus,    \* HTTP status of the latest GET /:videoId/transcript (0: none)
    runPc,        \* concurrent processVideo runs on one video: where each stands
    runErr,       \* the message of the error each concurrent run threw
    rec,          \* the fields of the video record those runs write
    recBy,        \* for each field of rec, the run that wrote it last (0: upload)
    mjVariant,    \* which videoMergeClips is loaded
    job,          \* the merge jobs: arguments, position, results
    fsDirs,       \* the temporary working directories that exist
    pollPc,       \* generateTranscript (AssemblyAI): where the call stands
    pollStatus,   \* transcript.status as the provider last returned it
    pollElapsed,  \* Date.now() - startTime, in ms
    pollOutcome,  \* how the call left the poll loop
    pollThrown,   \* the error generateTranscript throws to its caller
    llmPc,        \* callGeminiWithRetry: where the call stands
    llmRetries,   \* its local `retries`
    llmFailed,    \* the messages of the errors of its failed attempts, in order
    llmWaits,     \* the sleeps it made, in ms, in order
    llmResult,    \* what it returned or threw
    ckPc,         \* createTokenAwareChunks: called or returned
    ckTranscripts, \* its argument `transcripts`
    ckLimit,      \* its argument `maxTokensPerChunk`
    ckChunks,     \* the chunks it returned
    gcPc,         \* generateClips: where the request stands
    gcBody,       \* req.body.transcripts
    gcChunks,     \* transcriptChunks
    gcI,          \* the index of the chunk in hand, from 1
    gcSeen,       \* what callGeminiWithRetry gave for each chunk so far
    gcPotential,  \* potentialSegments.length
    gcResponses,  \* the responses sent on `res`, in order
    ftVariant,    \* getTranscript: which of its two copies runs
    ftPython,     \* whether PYTHON_API is set
    ftPc,         \* where the request stands
    ftInvoked,    \* the methods invoked, each with what it returned
    ftResponse    \* the response sent

segVars == <<segIn, segArg, segOut, applied, vidDuration>>

docVars == <<video, deployed, pvPc, pvGot, pvTranscript, pvError, pvOutcome,
             getStatus>>

runVars == <<runPc, runErr, rec, recBy>>

mergeVars == <<mjVariant, job, fsDirs>>

pollVars == <<pollPc, pollStatus, pollElapsed, pollOutcome, pollThrown>>

llmVars == <<llmPc, llmRetries, llmFailed, llmWaits, llmResult>>

chunkVars == <<ckPc, ckTranscripts, ckLimit, ckChunks>>

clipVars == <<gcPc, gcBody, gcChunks, gcI, gcSeen, gcPotential, gcResponses>>

fallbackVars == <<ftVariant, ftPython, ftPc, ftInvoked, ftResponse>>

restVars == <<chunkVars, clipVars, fallbackVars>>

extVars == <<runVars, mergeVars, pollVars, llmVars, restVars>>

vars == <<segVars, docVars, extVars>>

\* A segment with every field missing.
NoSegment ==
    [id |-> "", text |-> "", start |-> Undefined, end |-> Undefined,
     startTime |-> Undefined, endTime |-> Undefined, duration |-> Undefined]

NoTranscript == [segments |-> <<>>, duration |-> Undefined]

\* The document as the upload handlers create it: no transcript, the
\* schema's default duration 0, no processingError.
NewVideo(status) ==
    [status |-> status, hasTranscript |-> FALSE, segments |-> <<>>,
     duration |-> Num(0), processingError |-> ""]

\* The processVideo runs that may be in flight on one video at a time.
MaxRuns == 2

Runs == 1..MaxRuns

\* The fields of the record that processVideo and the upload route write.
\* transcript and duration hold the number of the run whose transcript
\* they come from (0: none yet).
RecFields == {"status", "transcript", "duration", "processingError"}

NewRec ==
    [status |-> "uploading", transcript |-> 0, duration |-> 0,
     processingError |-> ""]

RunsIdle ==
    /\ runPc = [r \in Runs |-> "idle"]
    /\ runErr = [r \in Runs |-> ""]
    /\ rec = NewRec
    /\ recBy = [f \in RecFields |-> 0]

\* The merge jobs that may be in flight at a time.
MaxJobs == 2

Jobs == 1..MaxJobs

\* What a clip's lookup yields for the render: the file and the range.
NoDetail == [path |-> "", startTime |-> Undefined, endTime |-> Undefined]

\* A call of videoMergeClips that has not started.
NewJob ==
    [pc |-> "new", jobId |-> "", dir |-> "", made |-> FALSE, clips |-> <<>>,
     details |-> <<>>, order |-> <<>>, extracted |-> <<>>, inputs |-> <<>>,
     started |-> FALSE, uploaded |-> FALSE, saved |-> FALSE,
     timedOut |-> FALSE, killed |-> FALSE,
     outcome |-> "none", error |-> ""]

MergeIdle ==
    /\ mjVariant = "clipsMerge"
    /\ job = [j \in Jobs |-> NewJob]
    /\ fsDirs = {}

\* An error object: the name of its constructor and its message.
JsError(message) == [name |-> "Error", message |-> message]

NoError == [name |-> "", message |-> ""]

PollIdle ==
    /\ pollPc = "idle"
    /\ pollStatus = "none"
    /\ pollElapsed = 0
    /\ pollOutcome = "none"
    /\ pollThrown = NoError

\* The outcome of a call: nothing yet, a returned value or a thrown error.
NoResult == [kind |-> "none", value |-> ""]

Returned(value) == [kind |-> "returned", value |-> value]

Thrown(message) == [kind |-> "thrown", value |-> message]

ReturnedUndefined == [kind |-> "undefined", value |-> ""]

LlmIdle ==
    /\ llmPc = "idle"
    /\ llmRetries = 0
    /\ llmFailed = <<>>
    /\ llmWaits = <<>>
    /\ llmResult = NoResult

ChunksIdle ==
    /\ ckPc = "idle"
    /\ ckTranscripts = <<>>
    /\ ckLimit = 0
    /\ ckChunks = <<>>

\* No response sent yet.
NoResponse == [status |-> 0, message |-> "", tried |-> {}]

\* req.body.transcripts before any request.
NoBody == [kind |-> "none", list |-> <<>>]

ClipsIdle ==
    /\ gcPc = "idle"
    /\ gcBody = NoBody
    /\ gcChunks = <<>>
    /\ gcI = 0
    /\ gcSeen = <<>>
    /\ gcPotential = 0
    /\ gcResponses = <<>>

FallbackIdle ==
    /\ ftVariant = "part_000"
    /\ ftPython = FALSE
    /\ ftPc = "idle"
    /\ ftInvoked = <<>>
    /\ ftResponse = NoResponse

RestIdle == ChunksIdle /\ ClipsIdle /\ FallbackIdle

ExtIdle == RunsIdle /\ MergeIdle /\ PollIdle /\ LlmIdle /\ RestIdle

SegIdle ==
    /\ segIn = NoSegment
    /\ segArg = NoSegment
    /\ segOut = NoSegment
    /\ applied = <<>>
    /\ vidDuration = Num(0)

DocIdle ==
    /\ video = NewVideo("uploading")
    /\ deployed = "current"
    /\ pvPc = "idle"
    /\ pvGot = FALSE
    /\ pvTranscript = NoTranscript
    /\ pvError = ""
    /\ pvOutcome = "none"
    /\ getStatus = 0

(***************************************************************************)
(* Normalization of one segment, applied to values of every shape.         *)
(***************************************************************************)
StartVals ==
    {Undefined, NaN, Text, Str(5 * Scale), Str(1500 * Scale),
     Num(0 - 5 * Scale), Num(0), Num(400), Num(1000100), Sec(5),
     Sec(1000), Sec(1200), Num(1500600000)}

EndVals ==
    {Undefined, NaN, Text, Num(0), Num(600), Num(1000400), Sec(4), Sec(9),
     Sec(1000), Sec(1300), Sec(2000)}

DurVals == {Num(0), Sec(3), Num(2000400)}

RawSegments ==
    [id : {""}, text : {"hi"}, start : StartVals, end : EndVals,
     startTime : {Undefined, Sec(2)}, endTime : {Undefined, Sec(3)},
     duration : {Undefined}]

InitSeg ==
    /\ segIn \in RawSegments
    /\ segArg = segIn
    /\ segOut = segIn
    /\ applied = <<>>
    /\ vidDuration \in DurVals
    /\ DocIdle
    /\ ExtIdle

\* The numbers a stored segment can hold: NaN is refused by the cast of the
\* Number paths, so a result holding it is never read back.
Storable(segment) == segment.start.t = "num" /\ segment.end.t = "num"

ApplyProcessVideo ==
    /\ applied = <<>>
    /\ segArg' = segIn
    /\ segOut' = NormalizeProcessVideo(segIn, 0)
    /\ applied' = <<"processVideo">>
    /\ UNCHANGED <<segIn, vidDuration, docVars, extVars>>

ApplyGetTranscript ==
    /\ Len(applied) < MaxApply
    /\ applied # <<>> => Storable(segOut)
    /\ segArg' = segOut
    /\ segOut' = NormalizeGetTranscript(segOut, 0, vidDuration)
    /\ applied' = Append(applied, "getTranscript")
    /\ UNCHANGED <<segIn, vidDuration, docVars, extVars>>

ApplyPreSave ==
    /\ Len(applied) < MaxApply
    /\ PassesValidation(segOut)
    /\ segArg' = segOut
    /\ segOut' = PreSaveSegment(segOut, vidDuration)
    /\ applied' = Append(applied, "preSave")
    /\ UNCHANGED <<segIn, vidDuration, docVars, extVars>>

NextSeg == ApplyProcessVideo \/ ApplyGetTranscript \/ ApplyPreSave

SpecSeg == InitSeg /\ [][NextSeg]_vars

(***************************************************************************)
(* The life cycle of one video document (Spec): runs of processVideo and   *)
(* requests for its transcript.                                            *)
(***************************************************************************)
\* The longest transcript a source returns here.
MaxSegs == 2

\* Raw segments as a transcript source may hand them over: one without
\* id and start whose end is under endTime, an inverted one, and one in
\* milliseconds whose id is the id that index 1 would be given.
ListRaw ==
    { [NoSegment EXCEPT !.text = "a", !.endTime = Sec(2)],
      [NoSegment EXCEPT !.id = "x", !.text = "b", !.start = Sec(5), !.end = Sec(4)],
      [NoSegment EXCEPT !.id = "segment-1", !.text = "c",
                        !.start = Sec(1500), !.end = Sec(2000)] }

SegLists == UNION {[1..n -> ListRaw] : n \in 0..MaxSegs}

\* The duration the source reports: absent, zero, below and above the last
\* segment's end, and in milliseconds.
ReportedDurations == {Undefined, Num(0), Sec(1), Sec(10), Sec(1500)}

SourceTranscripts == [segments : SegLists, duration : ReportedDurations]

\* What makes a run throw before it has a transcript.
RunErrors == {"Video file not found"}

Init ==
    /\ segIn = NoSegment
    /\ segArg = NoSegment
    /\ segOut = NoSegment
    /\ applied = <<>>
    /\ vidDuration = Num(0)
    /\ video \in {NewVideo("uploading"), NewVideo("processing")}
    /\ deployed \in {"current", "legacy"}
    /\ pvPc = "idle"
    /\ pvGot = FALSE
    /\ pvTranscript = NoTranscript
    /\ pvError = ""
    /\ pvOutcome = "none"
    /\ getStatus = 0
    /\ ExtIdle

\* processVideo up to `await generateTranscript(...)`: the run throws on
\* the way (file missing, transcription failed) or holds a transcript.
\* The legacy processVideo passes the path itself, a string, to a
\* generateTranscript that destructures {filePath, videoId, source}: both
\* in the repository then throw 'Invalid source or missing parameters'.
PVGenerate ==
    /\ pvPc \in {"idle", "done"}
    /\ \/ \E e \in RunErrors :
            /\ pvPc' = "thrown"
            /\ pvError' = e
            /\ pvGot' = FALSE
            /\ pvTranscript' = NoTranscript
       \/ /\ deployed = "legacy"
          /\ pvPc' = "thrown"
          /\ pvError' = "Transcription error: Invalid source or missing parameters"
          /\ pvGot' = FALSE
          /\ pvTranscript' = NoTranscript
       \/ \E t \in SourceTranscripts :
            /\ deployed = "current"
            /\ pvPc' = "generated"
            /\ pvError' = ""
            /\ pvGot' = TRUE
            /\ pvTranscript' = t
    /\ pvOutcome' = "none"
    /\ UNCHANGED <<extVars, segVars, video, deployed, getStatus>>

\* A plausible slip: invalid segments filtered out instead of repaired.
PVSegmentsDropInvalid(segments) ==
    LET all == [i \in 1..Len(segments) |-> NormalizeProcessVideo(segments[i], i - 1)]
        Kept(i) == Gt(segments[i].end, segments[i].start)
        idx == {i \in 1..Len(segments) : Kept(i)}
        Rank(i) == Cardinality({j \in idx : j <= i})
    IN  [k \in 1..Cardinality(idx) |-> all[CHOOSE i \in idx : Rank(i) = k]]

\* transcript.segments.map((segment, index) => ...)
PVSegments(segments) ==
    [i \in 1..Len(segments) |-> NormalizeProcessVideo(segments[i], i - 1)]

\* A plausible slip: the larger of the reported duration and the last end.
PVDurationMax(reported, segments) ==
    LET d0 == IF Truthy(reported) THEN reported ELSE Num(0)
        d1 == ConvertMs(d0)
        last == segments[Len(segments)].end
    IN  ToFixed3(IF Gt(last, d1) THEN last ELSE d1)

\* let duration = transcript.duration || 0; the conversion from ms; the
\* fallback to the last normalized segment's end; Number(duration.toFixed(3)).
PVDuration(reported, segments) ==
    LET d0 == IF Truthy(reported) THEN reported ELSE Num(0)
        d1 == ConvertMs(d0)
        d2 == IF ~Truthy(d1) /\ Len(segments) > 0
              THEN segments[Len(segments)].end
              ELSE d1
    IN  ToFixed3(d2)

\* The success update: Video.findByIdAndUpdate(videoId, {status: 'processed',
\* transcript, duration, ...}) in a transaction; processingError is not
\* among the fields it sets.
PVWriteProcessed ==
    LET segments == PVSegments(pvTranscript.segments)
    IN  /\ video' = [video EXCEPT !.status = "processed",
                                  !.hasTranscript = TRUE,
                                  !.segments = segments,
                                  !.duration = PVDuration(pvTranscript.duration, segments)]
        /\ pvPc' = "done"
        /\ pvOutcome' = "resolved"
        /\ UNCHANGED pvError

\* A plausible slip: the update without the check for an empty transcript.
PVUpdateUnchecked ==
    /\ pvPc = "generated"
    /\ deployed = "current"
    /\ PVWriteProcessed
    /\ UNCHANGED <<extVars, segVars, deployed, pvGot, pvTranscript, getStatus>>

\* processVideo after generateTranscript returned: an empty transcript
\* throws 'No transcript segments generated'; otherwise the segments are
\* normalized and the document updated.
PVUpdate ==
    /\ pvPc = "generated"
    /\ deployed = "current"
    /\ IF Len(pvTranscript.segments) = 0
       THEN /\ pvPc' = "thrown"
            /\ pvError' = "No transcript segments generated"
            /\ UNCHANGED <<video, pvOutcome>>
       ELSE PVWriteProcessed
    /\ UNCHANGED <<extVars, segVars, deployed, pvGot, pvTranscript, getStatus>>

\* The catch of processVideo: status 'failed' and the error's message are
\* written, and the run rejects.
PVCatch ==
    /\ pvPc = "thrown"
    /\ deployed = "current"
    /\ video' = [video EXCEPT !.status = "failed", !.processingError = pvError]
    /\ pvPc' = "done"
    /\ pvOutcome' = "rejected"
    /\ UNCHANGED <<extVars, segVars, deployed, pvGot, pvTranscript, pvError, getStatus>>

\* The catch of the legacy processVideo: it sets status 'failed' and a
\* field `error`, which is not a path of the schema and is not stored.
PVCatchLegacy ==
    /\ pvPc = "thrown"
    /\ deployed = "legacy"
    /\ video' = [video EXCEPT !.status = "failed"]
    /\ pvPc' = "done"
    /\ pvOutcome' = "rejected"
    /\ UNCHANGED <<extVars, segVars, deployed, pvGot, pvTranscript, pvError, getStatus>>

\* (video.transcript.segments || []).map((segment, index) => ...)
GetSegments(segments, videoDuration) ==
    [i \in 1..Len(segments) |-> NormalizeGetTranscript(segments[i], i - 1, videoDuration)]

\* GET /:videoId/transcript for the video of its owner.  After the segments
\* are computed (GetSegments), the handler's console.log reads `videoId`, a
\* name that is declared nowhere: the ReferenceError is caught and answered
\* with 500, so the computed segments never leave the handler.
GetTranscript ==
    /\ getStatus' =
          IF video.status # "processed" /\ ~video.hasTranscript THEN 423
          ELSE IF ~video.hasTranscript THEN 404
          ELSE 500
    /\ UNCHANGED <<extVars, segVars, video, deployed, pvPc, pvGot, pvTranscript, pvError,
                   pvOutcome>>

Next == PVGenerate \/ PVUpdate \/ PVCatch \/ PVCatchLegacy \/ GetTranscript

Spec == Init /\ [][Next]_vars

(***************************************************************************)
(* Concurrent runs of processVideo on one video (SpecRuns): each run and   *)
(* the upload route's failure handler write the record with                *)
(* findByIdAndUpdate, one step per await.  A transcript is told apart by   *)
(* the run that generated it.                                              *)
(***************************************************************************)
\* What makes a run throw before the update.
RunFailures ==
    {"Video file not found", "Transcription error: timeout",
     "No transcript segments generated"}

\* The error the success update throws when the transaction fails.
DbError == "Transaction failed"

Wrapped(message) == "Video processing failed: " \o message

InitRuns ==
    SegIdle /\ DocIdle /\ RunsIdle /\ MergeIdle /\ PollIdle /\ LlmIdle /\ RestIdle

\* processVideo up to the update: it throws on the way or holds a transcript.
RunGenerate(r) ==
    /\ runPc[r] = "idle"
    /\ \/ \E e \in RunFailures :
            /\ runPc' = [runPc EXCEPT ![r] = "thrown"]
            /\ runErr' = [runErr EXCEPT ![r] = e]
       \/ /\ runPc' = [runPc EXCEPT ![r] = "generated"]
          /\ UNCHANGED runErr
    /\ UNCHANGED <<llmVars, restVars, pollVars, segVars, docVars, mergeVars, rec, recBy>>

\* The success update: findByIdAndUpdate sets status, transcript, duration
\* (and thumbnailUrl, dates) and leaves every other field as it is; when the
\* transaction fails the error is rethrown to the outer catch.
RunUpdate(r) ==
    /\ runPc[r] = "generated"
    /\ \/ /\ rec' = [rec EXCEPT !.status = "processed", !.transcript = r,
                                 !.duration = r]
          /\ recBy' = [recBy EXCEPT !["status"] = r, !["transcript"] = r,
                                     !["duration"] = r]
          /\ runPc' = [runPc EXCEPT ![r] = "resolved"]
          /\ UNCHANGED runErr
       \/ /\ runPc' = [runPc EXCEPT ![r] = "thrown"]
          /\ runErr' = [runErr EXCEPT ![r] = DbError]
          /\ UNCHANGED <<rec, recBy>>
    /\ UNCHANGED <<llmVars, restVars, pollVars, segVars, docVars, mergeVars>>

\* The catch: findByIdAndUpdate sets status 'failed' and processingError
\* and leaves transcript and duration as they are; the run rejects.
RunCatch(r) ==
    /\ runPc[r] = "thrown"
    /\ rec' = [rec EXCEPT !.status = "failed", !.processingError = runErr[r]]
    /\ recBy' = [recBy EXCEPT !["status"] = r, !["processingError"] = r]
    /\ runPc' = [runPc EXCEPT ![r] = "rejected"]
    /\ UNCHANGED <<llmVars, restVars, pollVars, segVars, docVars, mergeVars, runErr>>

\* The upload route's handler of a rejected background run: it sets status
\* 'failed' and processingError to the message of the rejection.
UploadCatch(r) ==
    /\ runPc[r] = "rejected"
    /\ rec' = [rec EXCEPT !.status = "failed",
                          !.processingError = Wrapped(runErr[r])]
    /\ recBy' = [recBy EXCEPT !["status"] = r, !["processingError"] = r]
    /\ runPc' = [runPc EXCEPT ![r] = "handled"]
    /\ UNCHANGED <<llmVars, restVars, pollVars, segVars, docVars, mergeVars, runErr>>

NextRuns ==
    \E r \in Runs :
        RunGenerate(r) \/ RunUpdate(r) \/ RunCatch(r) \/ UploadCatch(r)

SpecRuns == InitRuns /\ [][NextRuns]_vars

(***************************************************************************)
(* videoMergeClips (SpecMerge: one job; SpecJobs: concurrent jobs).  Three *)
(* copies exist: "initialVersion" (generateClips.js: caller's jobId, clips *)
(* validated and extracted one after the other, cleanup in finally),       *)
(* "clipsMerge" (videoMergeClips.js: uuid, lookups under Promise.all,      *)
(* cleanup in the 'end' handler) and "part_002" (cleanup in 'end' and      *)
(* 'error').                                                               *)
(***************************************************************************)
MergeVariants == {"initialVersion", "clipsMerge", "part_002"}

\* The longest clip list handed to a job.
MaxClips == 2

\* Video.findById: "v1", "v2" and "v3" have a record, "v9" has none.
VideoExists(videoId) == videoId \in {"v1", "v2", "v3"}

\* resolveVideoPath: the file of "v3" is at none of the places tried.
FileResolves(videoId) == videoId \in {"v1", "v2"}

FilePath(videoId) == "uploads/" \o videoId \o ".mp4"

Clip(videoId, startTime, endTime) ==
    [videoId |-> videoId, startTime |-> startTime, endTime |-> endTime]

\* Clips as the selection hands them over: a good one, one that overlaps
\* it, one on another video, one too short, one inverted, one without
\* startTime, one of a video without record, one of a video without file.
ClipVals ==
    { Clip("v1", Sec(1), Sec(5)), Clip("v1", Sec(3), Sec(8)),
      Clip("v2", Sec(6), Sec(10)), Clip("v2", Sec(10), Sec(11)),
      Clip("v2", Sec(9), Sec(5)), Clip("v1", Undefined, Sec(5)),
      Clip("v9", Sec(1), Sec(5)), Clip("v3", Sec(1), Sec(5)),
      Clip("v1", Num(0), Sec(4)) }

ClipLists == UNION {[1..n -> ClipVals] : n \in 0..MaxClips}

\* The job ids a caller of the initial version passes.
JobIds == {"a", "b"}

\* uuidv4(): a fresh id at every call.
Uuid(j) == "uuid-" \o ToString(j)

\* if (!clip.videoId || !clip.startTime || !clip.endTime)
InvalidClip(clip) ==
    clip.videoId = "" \/ ~Truthy(clip.startTime) \/ ~Truthy(clip.endTime)

Detail(clip) ==
    [path |-> FilePath(clip.videoId), startTime |-> clip.startTime,
     endTime |-> clip.endTime]

\* Where each copy removes the temporary directory: `finally`; the end of
\* the 'end' handler only; the 'end' handler and the 'error' handler.
Cleans(variant, where) ==
    CASE variant = "initialVersion" -> TRUE
      [] variant = "clipsMerge" -> where = "success"
      [] OTHER -> where \in {"success", "concat"}

\* The job, in the state `at`, settles: the promise resolves or rejects,
\* with or without rmSync of the temporary directory.
Settle(j, at, outcome, error, where) ==
    /\ job' = [job EXCEPT ![j] =
                 [at EXCEPT !.pc = "settled", !.outcome = outcome,
                            !.error = error,
                            !.uploaded = @ \/ where \in {"save", "success"},
                            !.saved = @ \/ where = "success"]]
    /\ fsDirs' = IF at.made /\ Cleans(mjVariant, where)
                 THEN fsDirs \ {at.dir}
                 ELSE fsDirs

\* The call up to its first await: the checks of the arguments, mkdirSync
\* of the temporary directory and, in the initial version, the validation
\* of the clips.
MergeStart(j, lists, ids) ==
    /\ job[j].pc = "new"
    /\ \E clips \in lists, id \in ids :
         LET jobId == IF mjVariant = "initialVersion" THEN id ELSE Uuid(j)
             dir == IF mjVariant = "initialVersion"
                    THEN "merge-" \o jobId
                    ELSE "tmp/" \o jobId
             begun == [job[j] EXCEPT !.jobId = jobId, !.clips = clips]
             made == [begun EXCEPT !.dir = dir, !.made = TRUE]
         IN  IF clips = <<>>
             THEN Settle(j, begun, "rejected", "No clips provided", "arguments")
             ELSE IF mjVariant = "initialVersion"
                     /\ \E i \in 1..Len(clips) : InvalidClip(clips[i])
             THEN Settle(j, made, "rejected", "Invalid clip", "validate")
             ELSE /\ job' = [job EXCEPT ![j] =
                                [made EXCEPT !.pc = "clips",
                                             !.details =
                                                 IF mjVariant = "initialVersion"
                                                 THEN <<>>
                                                 ELSE [i \in 1..Len(clips) |-> NoDetail]]]
                  /\ fsDirs' = fsDirs \cup {dir}
    /\ UNCHANGED <<llmVars, restVars, pollVars, segVars, docVars, runVars, mjVariant>>

\* A plausible slip: the results kept in the order the lookups complete.
PlaceByCompletion(details, i, d) ==
    LET free == {k \in 1..Len(details) : details[k] = NoDetail}
        first == CHOOSE k \in free : \A m \in free : k <= m
    IN  [details EXCEPT ![first] = d]

\* Promise.all(clips.map(async clip => ...)): the value of the i-th promise
\* is the i-th element of the result, whenever it settles.
PromiseAllPlace(details, i, d) == [details EXCEPT ![i] = d]

\* A plausible slip: the result of the lookup is not tested.
LookupUnchecked(clip) == "found"

\* const video = await Video.findById(clip.videoId); if (!video) throw ...;
\* resolveVideoPath(video.videoUrl), which throws when the file is at none
\* of the places (part_002 takes video.videoUrl as it is).
Lookup(clip) ==
    IF ~VideoExists(clip.videoId) THEN "Video not found"
    ELSE IF mjVariant # "part_002" /\ ~FileResolves(clip.videoId)
         THEN "Could not resolve path"
         ELSE "found"

\* One clip is looked up: the next iteration of the loop of the initial
\* version, with the extraction of the clip by ffmpeg, or the completion of
\* any pending callback of clips.map in the other copies.
MergeClip(j) ==
    /\ job[j].pc = "clips"
    /\ \E i \in 1..Len(job[j].clips) :
         LET clip == job[j].clips[i]
             seen == {job[j].order[k] : k \in 1..Len(job[j].order)}
         IN  /\ i \notin seen
             /\ mjVariant = "initialVersion" => i = Len(job[j].order) + 1
             /\ IF Lookup(clip) # "found"
                THEN Settle(j, job[j], "rejected", Lookup(clip), "lookup")
                ELSE IF mjVariant = "initialVersion"
                THEN \/ /\ job' = [job EXCEPT
                                     ![j].details = Append(@, Detail(clip)),
                                     ![j].extracted = Append(@, Detail(clip)),
                                     ![j].order = Append(@, i)]
                        /\ UNCHANGED fsDirs
                     \/ Settle(j, [job[j] EXCEPT !.extracted = Append(@, Detail(clip))],
                               "rejected", "ffmpeg error", "extract")
                ELSE /\ job' = [job EXCEPT
                                  ![j].details = PromiseAllPlace(@, i, Detail(clip)),
                                  ![j].order = Append(@, i)]
                     /\ UNCHANGED fsDirs
    /\ UNCHANGED <<llmVars, restVars, pollVars, segVars, docVars, runVars, mjVariant>>

\* Every clip is there: the concat list is written from clipFiles, or the
\* inputs of the ffmpeg command are added from clipDetails with their -ss
\* and -to, and the concatenation is started.
MergeConcatStart(j) ==
    /\ job[j].pc = "clips"
    /\ Len(job[j].order) = Len(job[j].clips)
    /\ job' = [job EXCEPT ![j].pc = "concat", ![j].started = TRUE,
                          ![j].inputs = job[j].details,
                          ![j].extracted =
                              IF mjVariant = "initialVersion"
                              THEN @
                              ELSE job[j].details]
    /\ UNCHANGED <<llmVars, restVars, pollVars, segVars, docVars, runVars, mjVariant, fsDirs>>

\* The timer set in the 'start' handler of clipsMerge fires after 30 minutes
\* without 'end' or 'error'. ffmpegProcess holds the command line that
\* fluent-ffmpeg passes to 'start', a string, so ffmpegProcess.pid is
\* undefined and process.kill(undefined, 'SIGKILL') throws a TypeError in
\* the timer callback: ffmpeg is not killed, nothing rejects the promise,
\* and the uncaught exception ends the server with every job it runs.
MergeTimeout(j) ==
    /\ mjVariant = "clipsMerge"
    /\ job[j].pc = "concat"
    /\ job' = [k \in Jobs |->
                 IF k = j
                 THEN [job[k] EXCEPT !.pc = "crashed", !.timedOut = TRUE]
                 ELSE IF job[k].pc \in {"new", "settled"}
                      THEN job[k]
                      ELSE [job[k] EXCEPT !.pc = "crashed"]]
    /\ UNCHANGED <<llmVars, restVars, pollVars, segVars, docVars, runVars, mjVariant, fsDirs>>

\* ffmpeg's 'end' or 'error'.
MergeConcatEnd(j) ==
    /\ job[j].pc = "concat"
    /\ \/ /\ job' = [job EXCEPT ![j].pc = "post"]
          /\ UNCHANGED fsDirs
       \/ Settle(j, job[j], "rejected", "Merge failed", "concat")
    /\ UNCHANGED <<llmVars, restVars, pollVars, segVars, docVars, runVars, mjVariant>>

\* After the merge: uploadToS3, finalVideo.save(), removal of the temporary
\* directory, and the promise resolves; either await may throw.
MergePost(j) ==
    /\ job[j].pc = "post"
    /\ \/ Settle(j, job[j], "rejected", "upload failed", "upload")
       \/ Settle(j, job[j], "rejected", "save failed", "save")
       \/ Settle(j, job[j], "resolved", "", "success")
    /\ UNCHANGED <<llmVars, restVars, pollVars, segVars, docVars, runVars, mjVariant>>

InitMerge ==
    /\ SegIdle
    /\ DocIdle
    /\ RunsIdle
    /\ mjVariant \in MergeVariants
    /\ job = [j \in Jobs |-> NewJob]
    /\ fsDirs = {}
    /\ PollIdle
    /\ LlmIdle
    /\ RestIdle

NextMerge ==
    \/ MergeStart(1, ClipLists, {"a"})
    \/ MergeClip(1)
    \/ MergeConcatStart(1)
    \/ MergeTimeout(1)
    \/ MergeConcatEnd(1)
    \/ MergePost(1)

SpecMerge == InitMerge /\ [][NextMerge]_vars

\* Concurrent calls of videoMergeClips (SpecJobs): the requests of several
\* users, or of one user twice, each with a short clip list.
JobLists ==
    { <<Clip("v1", Sec(1), Sec(5))>>,
      <<Clip("v1", Sec(1), Sec(5)), Clip("v9", Sec(1), Sec(5))>> }

NextJobs ==
    \E j \in Jobs :
        \/ MergeStart(j, JobLists, JobIds)
        \/ MergeClip(j)
        \/ MergeConcatStart(j)
        \/ MergeTimeout(j)
        \/ MergeConcatEnd(j)
        \/ MergePost(j)

SpecJobs == InitMerge /\ [][NextJobs]_vars

(***************************************************************************)
(* generateTranscript with AssemblyAI (SpecPoll): the transcript is        *)
(* submitted and its status polled until it is 'completed' or 'error' or   *)
(* the timeout has passed.                                                 *)
(***************************************************************************)
\* const timeout = 600000; // 10 minutes
POLL_TIMEOUT == 600000

\* setTimeout(resolve, 5000)
POLL_INTERVAL == 5000

\* What the provider reports as transcript.status.
ProviderStatuses == {"queued", "processing", "completed", "error"}

\* How long client.transcripts.get takes to answer, in ms.
GetLatencies == {0, 2500}

InitPoll ==
    SegIdle /\ DocIdle /\ RunsIdle /\ MergeIdle /\ PollIdle /\ LlmIdle /\ RestIdle

\* let transcript = await client.transcripts.create(...);
\* const startTime = Date.now();
PollCreate ==
    /\ pollPc = "idle"
    /\ pollStatus' \in ProviderStatuses
    /\ pollElapsed' = 0
    /\ pollPc' = "check"
    /\ UNCHANGED <<llmVars, restVars, segVars, docVars, runVars, mergeVars, pollOutcome, pollThrown>>

\* Date.now() - startTime > timeout
PollTimedOut(elapsed) == elapsed > POLL_TIMEOUT

\* What the provider puts in transcript.error.
ProviderErrors == {"Audio file could not be decoded", "Internal server error"}

\* catch (error) { throw new Error(`Transcription error: ${error.message}`) }
Rewrap(error) == JsError("Transcription error: " \o error.message)

\* The test of the while loop and of the timeout at the top of its body,
\* and what follows the loop: the transcript, or the provider's error.
\* Whatever is thrown passes through the catch of generateTranscript.
PollCheck ==
    /\ pollPc = "check"
    /\ IF pollStatus = "completed"
       THEN pollPc' = "done" /\ pollOutcome' = "completed" /\ UNCHANGED pollThrown
       ELSE IF pollStatus = "error"
       THEN /\ pollPc' = "done"
            /\ pollOutcome' = "error"
            /\ \E m \in ProviderErrors : pollThrown' = Rewrap(JsError(m))
       ELSE IF PollTimedOut(pollElapsed)
       THEN /\ pollPc' = "done"
            /\ pollOutcome' = "timeout"
            /\ pollThrown' = Rewrap(JsError("Transcription timeout"))
       ELSE pollPc' = "wait" /\ UNCHANGED <<pollOutcome, pollThrown>>
    /\ UNCHANGED <<llmVars, restVars, segVars, docVars, runVars, mergeVars, pollStatus, pollElapsed>>

\* A plausible slip: the time measured from the latest poll, not from the
\* submission.
ElapsedSinceLastPoll(elapsed, waited) == waited

\* Date.now() - startTime after a further wait: startTime is taken once,
\* before the loop.
ElapsedAfter(elapsed, waited) == elapsed + waited

\* await new Promise(resolve => setTimeout(resolve, 5000));
\* transcript = await client.transcripts.get(transcript.id);
PollWait ==
    /\ pollPc = "wait"
    /\ \E status \in ProviderStatuses, latency \in GetLatencies :
         /\ pollStatus' = status
         /\ pollElapsed' = ElapsedAfter(pollElapsed, POLL_INTERVAL + latency)
    /\ pollPc' = "check"
    /\ UNCHANGED <<llmVars, restVars, segVars, docVars, runVars, mergeVars, pollOutcome, pollThrown>>

NextPoll == PollCreate \/ PollCheck \/ PollWait

\* The timer fires and the provider answers: a step that can be taken is
\* taken.
SpecPoll == InitPoll /\ [][NextPoll]_vars /\ WF_vars(NextPoll)

(***************************************************************************)
(* callGeminiWithRetry (SpecLlm): the request to the language model, with  *)
(* retries on errors whose message holds 'quota' or 'rate'.                *)
(***************************************************************************)
\* maxRetries = 3, the default, which every caller takes.
MAX_RETRIES == 3

\* String.prototype.includes
Includes(s, sub) ==
    \E i \in 1..(Len(s) - Len(sub) + 1) : SubSeq(s, i, i + Len(sub) - 1) = sub

\* The texts a successful attempt answers with, over a small alphabet: the
\* brackets, braces and commas of JSON, `{}` for a clip object, `1` for a
\* scalar, the space, and `x` for a word of prose.  A JSON array of clips,
\* the array inside prose, two arrays inside prose, a truncated array, a
\* JSON object, and a JSON array of scalars.
LlmTexts ==
    {"[{}, {}]", "x [{}] x", "x [{}] x [{}]", "[{}, {", "{}", "[1]"}

\* The messages of the errors an attempt fails with: the quota is used up,
\* the requests come too fast, the key is wrong, the service failed.
LlmErrors ==
    { "[429 Too Many Requests] Resource has been exhausted (e.g. check quota).",
      "[429 Too Many Requests] rate limit exceeded",
      "[400 Bad Request] API key not valid",
      "Error fetching from models/gemini-1.5-pro-latest:generateContent: [500 Internal Server Error]" }

RECURSIVE Pow2(_)
\* Math.pow(2, retries)
Pow2(k) == IF k = 0 THEN 1 ELSE 2 * Pow2(k - 1)

\* A plausible slip: a last retry too many, after which the loop ends.
MayRetryInclusive(message, retries) ==
    (Includes(message, "quota") \/ Includes(message, "rate"))
    /\ retries <= MAX_RETRIES

\* (error.message.includes('quota') || error.message.includes('rate'))
\*     && retries < maxRetries
MayRetry(message, retries) ==
    (Includes(message, "quota") \/ Includes(message, "rate"))
    /\ retries < MAX_RETRIES

InitLlm ==
    SegIdle /\ DocIdle /\ RunsIdle /\ MergeIdle /\ PollIdle /\ LlmIdle /\ RestIdle

\* let retries = 0; const model = ...
LlmCall ==
    /\ llmPc = "idle"
    /\ llmPc' = "loop"
    /\ UNCHANGED <<restVars, segVars, docVars, runVars, mergeVars, pollVars, llmRetries,
                   llmFailed, llmWaits, llmResult>>

\* One pass of `while (retries <= maxRetries)`: the attempt returns the text
\* of the response, or fails and is retried after a sleep, or its error is
\* thrown; when the test of the loop fails the function ends without a
\* return.
LlmAttempt ==
    /\ llmPc = "loop"
    /\ IF llmRetries > MAX_RETRIES
       THEN /\ llmPc' = "done"
            /\ llmResult' = ReturnedUndefined
            /\ UNCHANGED <<llmRetries, llmFailed, llmWaits>>
       ELSE \/ \E text \in LlmTexts :
                 /\ llmPc' = "done"
                 /\ llmResult' = Returned(text)
                 /\ UNCHANGED <<llmRetries, llmFailed, llmWaits>>
            \/ \E message \in LlmErrors :
                 /\ llmFailed' = Append(llmFailed, message)
                 /\ IF MayRetry(message, llmRetries)
                    THEN /\ llmWaits' = Append(llmWaits, Pow2(llmRetries) * 1000)
                         /\ llmRetries' = llmRetries + 1
                         /\ UNCHANGED <<llmPc, llmResult>>
                    ELSE /\ llmPc' = "done"
                         /\ llmResult' = Thrown(message)
                         /\ UNCHANGED <<llmRetries, llmWaits>>
    /\ UNCHANGED <<restVars, segVars, docVars, runVars, mergeVars, pollVars>>

NextLlm == LlmCall \/ LlmAttempt

SpecLlm == InitLlm /\ [][NextLlm]_vars

(***************************************************************************)
(* createTokenAwareChunks (SpecChunks).  A transcript is modelled by the   *)
(* length in characters of its JSON.stringify text, which is all the       *)
(* function reads of it.                                                   *)
(***************************************************************************)
MaxTranscripts == 3

\* reservedTokens
RESERVED_TOKENS == 5000

\* Math.ceil(text.length / 4)
CountTokens(chars) == (chars + 3) \div 4

\* Transcripts of 1, 15000, 20000, 35000 and 35001 tokens.
TranscriptVals == {4, 60000, 80000, 140000, 140004}

TranscriptLists ==
    UNION { [1..n -> TranscriptVals] : n \in 0..MaxTranscripts }

\* maxTokensPerChunk: the value generateClips passes, a smaller one, and one
\* that leaves nothing after the reserve.
ChunkLimits == {40000, 25000, 5000}

\* The locals of the loop before its first pass.
ChunkStart == [chunks |-> <<>>, currentChunk |-> <<>>, currentChunkTokens |-> 0]

\* A plausible slip: the oversized transcript is pushed without the chunk
\* in hand being pushed first.
ChunkStepNoFlush(st, transcript, effectiveMaxTokens) ==
    LET transcriptTokens == CountTokens(transcript)
        flushed ==
            IF st.currentChunkTokens + transcriptTokens > effectiveMaxTokens
               /\ Len(st.currentChunk) > 0
            THEN [chunks |-> Append(st.chunks, st.currentChunk),
                  currentChunk |-> <<>>, currentChunkTokens |-> 0]
            ELSE st
    IN  IF transcriptTokens > effectiveMaxTokens
        THEN [st EXCEPT !.chunks = Append(st.chunks, <<transcript>>)]
        ELSE [flushed EXCEPT
                 !.currentChunk = Append(flushed.currentChunk, transcript),
                 !.currentChunkTokens = flushed.currentChunkTokens + transcriptTokens]

\* One pass of the for loop.
ChunkStep(st, transcript, effectiveMaxTokens) ==
    LET transcriptTokens == CountTokens(transcript)
        pushed ==
            IF Len(st.currentChunk) > 0
            THEN [chunks |-> Append(st.chunks, st.currentChunk),
                  currentChunk |-> <<>>, currentChunkTokens |-> 0]
            ELSE st
        flushed ==
            IF st.currentChunkTokens + transcriptTokens > effectiveMaxTokens
               /\ Len(st.currentChunk) > 0
            THEN [chunks |-> Append(st.chunks, st.currentChunk),
                  currentChunk |-> <<>>, currentChunkTokens |-> 0]
            ELSE st
    IN  IF transcriptTokens > effectiveMaxTokens
        THEN [pushed EXCEPT !.chunks = Append(pushed.chunks, <<transcript>>)]
        ELSE [flushed EXCEPT
                 !.currentChunk = Append(flushed.currentChunk, transcript),
                 !.currentChunkTokens = flushed.currentChunkTokens + transcriptTokens]

RECURSIVE ChunkLoop(_, _, _, _)
\* for (let i = 0; i < transcripts.length; i++)
ChunkLoop(st, transcripts, i, effectiveMaxTokens) ==
    IF i > Len(transcripts)
    THEN st
    ELSE ChunkLoop(ChunkStep(st, transcripts[i], effectiveMaxTokens),
                   transcripts, i + 1, effectiveMaxTokens)

createTokenAwareChunks(transcripts, maxTokensPerChunk) ==
    LET effectiveMaxTokens == maxTokensPerChunk - RESERVED_TOKENS
        st == ChunkLoop(ChunkStart, transcripts, 1, effectiveMaxTokens)
    IN  IF Len(st.currentChunk) > 0
        THEN Append(st.chunks, st.currentChunk)
        ELSE st.chunks

InitChunks ==
    /\ SegIdle /\ DocIdle /\ RunsIdle /\ MergeIdle /\ PollIdle /\ LlmIdle
    /\ ClipsIdle /\ FallbackIdle
    /\ ckPc = "called"
    /\ ckTranscripts \in TranscriptLists
    /\ ckLimit \in ChunkLimits
    /\ ckChunks = <<>>

ChunkReturn ==
    /\ ckPc = "called"
    /\ ckPc' = "returned"
    /\ ckChunks' = createTokenAwareChunks(ckTranscripts, ckLimit)
    /\ UNCHANGED <<segVars, docVars, runVars, mergeVars, pollVars, llmVars,
                   clipVars, fallbackVars, ckTranscripts, ckLimit>>

NextChunks == ChunkReturn

SpecChunks == InitChunks /\ [][NextChunks]_vars

(***************************************************************************)
(* generateClips (SpecClips): the request handler that sends the chunks of *)
(* the transcripts to the language model and answers with the script.      *)
(***************************************************************************)
\* The character of s at i.
Char(s, i) == SubSeq(s, i, i)

RECURSIVE SkipSpaces(_, _)
\* The first position from i on that holds no white space (\s*).
SkipSpaces(s, i) ==
    IF i <= Len(s) /\ Char(s, i) = " " THEN SkipSpaces(s, i + 1) ELSE i

\* Where a match of /\[\s*\{.*\}\s*\]/s that opens at i may close.
MatchEnds(s, i) ==
    LET open == SkipSpaces(s, i + 1)
    IN  IF i <= Len(s) /\ Char(s, i) = "[" /\ open <= Len(s) /\ Char(s, open) = "{"
        THEN { q \in (open + 2)..Len(s) :
                 /\ Char(s, q) = "]"
                 /\ \E c \in (open + 1)..(q - 1) :
                        /\ Char(s, c) = "}"
                        /\ \A r \in (c + 1)..(q - 1) : Char(s, r) = " " }
        ELSE {}

SetMin(S) == CHOOSE x \in S : \A y \in S : x <= y

SetMax(S) == CHOOSE x \in S : \A y \in S : x >= y

\* responseContent.match(/\[\s*\{.*\}\s*\]/s): the leftmost match, and of
\* those the longest, `.*` being greedy; null when there is none.
RegexMatch(s) ==
    LET starts == { i \in 1..Len(s) : MatchEnds(s, i) # {} }
    IN  IF starts = {}
        THEN [found |-> FALSE, text |-> ""]
        ELSE [found |-> TRUE,
              text |-> SubSeq(s, SetMin(starts), SetMax(MatchEnds(s, SetMin(starts))))]

RECURSIVE ParseValue(_, _), ParseElements(_, _)
\* JSON.parse, one value that begins at i: the position after it, or 0 for
\* a SyntaxError.
ParseValue(s, i) ==
    IF i > Len(s) THEN 0
    ELSE IF Char(s, i) = "1" THEN i + 1
    ELSE IF Char(s, i) = "{"
         THEN LET k == SkipSpaces(s, i + 1)
              IN  IF k <= Len(s) /\ Char(s, k) = "}" THEN k + 1 ELSE 0
    ELSE IF Char(s, i) = "["
         THEN LET k == SkipSpaces(s, i + 1)
              IN  IF k <= Len(s) /\ Char(s, k) = "]"
                  THEN k + 1
                  ELSE ParseElements(s, k)
    ELSE 0

\* The elements of an array from i up to its closing bracket.
ParseElements(s, i) ==
    LET v == ParseValue(s, i)
        k == SkipSpaces(s, v)
    IN  IF v = 0 \/ k > Len(s) THEN 0
        ELSE IF Char(s, k) = "]" THEN k + 1
        ELSE IF Char(s, k) = "," THEN ParseElements(s, SkipSpaces(s, k + 1))
        ELSE 0

\* JSON.parse(s) does not throw.
JsonParses(s) ==
    LET v == ParseValue(s, SkipSpaces(s, 1))
    IN  v # 0 /\ SkipSpaces(s, v) = Len(s) + 1

RECURSIVE TopLevelCommas(_, _, _)
\* The commas of s from i on that lie directly inside the outer array.
TopLevelCommas(s, i, depth) ==
    IF i > Len(s) THEN 0
    ELSE IF Char(s, i) \in {"[", "{"} THEN TopLevelCommas(s, i + 1, depth + 1)
    ELSE IF Char(s, i) \in {"]", "}"} THEN TopLevelCommas(s, i + 1, depth - 1)
    ELSE (IF Char(s, i) = "," /\ depth = 1 THEN 1 ELSE 0)
         + TopLevelCommas(s, i + 1, depth)

\* segmentsFromChunk.length on a chunk that is not the last: the elements
\* of the matched array, and 0 when nothing matches or the match does not
\* parse (a warning only).
SegmentsFromChunk(responseContent) ==
    LET jsonMatch == RegexMatch(responseContent)
    IN  IF jsonMatch.found /\ JsonParses(jsonMatch.text)
        THEN TopLevelCommas(jsonMatch.text, 1, 0) + 1
        ELSE 0

\* .slice(-30)
KEEP_SEGMENTS == 30

\* What is sent on `res`.
Response(status, message, script) ==
    [status |-> status, message |-> message, script |-> script]

\* The answer to the response of the last chunk.
FinalResponse(responseContent) ==
    LET jsonMatch == RegexMatch(responseContent)
        jsonContent == IF jsonMatch.found THEN jsonMatch.text ELSE responseContent
    IN  IF JsonParses(jsonContent)
        THEN Response(200, "Video script generated successfully", jsonContent)
        ELSE Response(500, "Failed to generate valid JSON response", "")

\* The answer to an error thrown by callGeminiWithRetry.
GeminiErrorResponse(message) ==
    IF Includes(message, "content")
    THEN Response(500, "Gemini content policy violation. Please check your input.", "")
    ELSE IF Includes(message, "quota") \/ Includes(message, "rate")
         THEN Response(500, "Gemini API rate limit exceeded. Please try again later.", "")
         ELSE Response(500, "Gemini API error on chunk", "")

\* A plausible slip: the index, which counts from 0, compared with the
\* length.
IsLastChunkPastEnd(i, n) == i = n + 1

\* isLastChunk = i === transcriptChunks.length - 1, with i counted from 1.
IsLastChunk(i, n) == i = n

\* What callGeminiWithRetry gives: a text or an error.
LlmOutcomes ==
    { Returned(text) : text \in LlmTexts } \cup { Thrown(m) : m \in LlmErrors }

\* Transcripts of 20000 and of 35001 tokens.
RequestTranscripts == {80000, 140004}

\* req.body.transcripts: absent, not an array, or an array.
Bodies ==
    { [kind |-> "missing", list |-> <<>>], [kind |-> "notArray", list |-> <<>>] }
    \cup { [kind |-> "array", list |-> l] :
             l \in UNION { [1..n -> RequestTranscripts] : n \in 0..MaxTranscripts } }

\* createTokenAwareChunks(transcripts, 40000)
CHUNK_TOKENS == 40000

InitClips ==
    /\ SegIdle /\ DocIdle /\ RunsIdle /\ MergeIdle /\ PollIdle /\ LlmIdle
    /\ ChunksIdle /\ ClipsIdle /\ FallbackIdle

\* The request arrives: the check of the body and the chunking.
GcRequest ==
    /\ gcPc = "idle"
    /\ \E body \in Bodies :
          /\ gcBody' = body
          /\ IF body.kind # "array" \/ Len(body.list) = 0
             THEN /\ gcResponses' =
                        <<Response(400, "Invalid or missing transcripts data", "")>>
                  /\ gcPc' = "done"
                  /\ UNCHANGED <<gcChunks, gcI>>
             ELSE /\ gcChunks' = createTokenAwareChunks(body.list, CHUNK_TOKENS)
                  /\ gcI' = 1
                  /\ gcPc' = "loop"
                  /\ UNCHANGED gcResponses
    /\ UNCHANGED <<segVars, docVars, runVars, mergeVars, pollVars, llmVars,
                   chunkVars, fallbackVars, gcSeen, gcPotential>>

\* One pass of the loop over the chunks: the call of the model and what
\* follows it; past the last chunk the handler ends.
GcChunk ==
    /\ gcPc = "loop"
    /\ IF gcI > Len(gcChunks)
       THEN /\ gcPc' = "done"
            /\ UNCHANGED <<gcI, gcSeen, gcPotential, gcResponses>>
       ELSE \E outcome \in LlmOutcomes :
              /\ gcSeen' = Append(gcSeen, outcome)
              /\ IF outcome.kind = "thrown"
                 THEN /\ gcResponses' =
                            Append(gcResponses, GeminiErrorResponse(outcome.value))
                      /\ gcPc' = "done"
                      /\ UNCHANGED <<gcI, gcPotential>>
                 ELSE IF IsLastChunk(gcI, Len(gcChunks))
                      THEN /\ gcResponses' =
                                 Append(gcResponses, FinalResponse(outcome.value))
                           /\ gcPc' = "done"
                           /\ UNCHANGED <<gcI, gcPotential>>
                      ELSE /\ gcPotential' =
                                 LET n == gcPotential + SegmentsFromChunk(outcome.value)
                                 IN  IF n > KEEP_SEGMENTS THEN KEEP_SEGMENTS ELSE n
                           /\ gcI' = gcI + 1
                           /\ UNCHANGED <<gcPc, gcResponses>>
    /\ UNCHANGED <<segVars, docVars, runVars, mergeVars, pollVars, llmVars,
                   chunkVars, fallbackVars, gcBody, gcChunks>>

NextClips == GcRequest \/ GcChunk

SpecClips == InitClips /\ [][NextClips]_vars

(***************************************************************************)
(* getTranscript for a YouTube video (SpecFallback), in its two copies:    *)
(* the methods that fetch a transcript are tried one after the other.      *)
(***************************************************************************)
FallbackVariants == {"part_000", "part_001"}

\* const methods = [...], with the Python API first when it is configured;
\* part_001 gives PYTHON_API a default and always lists it.
Methods(variant, python) ==
    IF variant = "part_001" \/ python
    THEN <<"Python API", "YouTube Transcript (English)",
           "YouTube Transcript (any language)">>
    ELSE <<"YouTube Transcript (English)", "YouTube Transcript (any language)">>

\* The messages of the errors a method fails with; part_000 logs them,
\* part_001 reports them in `attempts`.
MethodErrors == {"Transcript is disabled on this video", "timeout exceeded"}

\* What a method gives: it failed (null in part_000, success: false in
\* part_001), it succeeded without data (the Python API of part_001), with
\* an empty list, or with segments.
MethodResults(variant, method) ==
    { [success |-> FALSE, data |-> "null", error |-> e] : e \in MethodErrors }
    \cup { [success |-> TRUE, data |-> "empty", error |-> ""],
           [success |-> TRUE, data |-> "segments", error |-> ""] }
    \cup (IF variant = "part_001" /\ method = "Python API"
          THEN {[success |-> TRUE, data |-> "null", error |-> ""]}
          ELSE {})

\* The test that ends the loop: if (transcriptList) in part_000,
\* if (result.success && result.data) in part_001; an empty array is truthy.
Found(result) == result.success /\ result.data # "null"

\* The answers given before any method is tried: the id is missing or
\* malformed, the API key is missing, the video is not found, the lookup
\* failed, the captions are disabled.
EarlyAnswers(variant) ==
    IF variant = "part_000"
    THEN { [status |-> 400, message |-> "Invalid YouTube video ID", tried |-> {}],
           [status |-> 404, message |-> "Video not found or is not accessible", tried |-> {}],
           [status |-> 500, message |-> "Failed to verify video existence", tried |-> {}] }
    ELSE { [status |-> 400, message |-> "Video ID is required", tried |-> {}],
           [status |-> 500, message |-> "Server configuration error", tried |-> {}],
           [status |-> 404, message |-> "Video not found or is not accessible", tried |-> {}],
           [status |-> 400, message |-> "Transcripts are disabled for this video", tried |-> {}] }

\* The names of the methods invoked so far.
Attempted(invoked) == { invoked[k].method : k \in 1..Len(invoked) }

\* The answer after the loop.
FallbackAnswer(variant, python, invoked) ==
    LET methods == Methods(variant, python)
        last == invoked[Len(invoked)].result
        none == IF variant = "part_000"
                THEN last.data \in {"null", "empty"}
                ELSE ~Found(last) \/ last.data = "empty"
    IN  IF none
        THEN [status |-> 404, message |-> "No transcript available",
              tried |-> IF variant = "part_000"
                        THEN { methods[k] : k \in 1..Len(methods) }
                        ELSE Attempted(invoked)]
        ELSE [status |-> 200, message |-> "Transcript fetched successfully",
              tried |-> IF variant = "part_000" THEN {} ELSE Attempted(invoked)]

InitFallback ==
    /\ SegIdle /\ DocIdle /\ RunsIdle /\ MergeIdle /\ PollIdle /\ LlmIdle
    /\ ChunksIdle /\ ClipsIdle
    /\ ftVariant \in FallbackVariants
    /\ ftPython \in IF ftVariant = "part_001" THEN {TRUE} ELSE BOOLEAN
    /\ ftPc = "idle"
    /\ ftInvoked = <<>>
    /\ ftResponse = NoResponse

\* The request arrives: the checks before the methods.
FtRequest ==
    /\ ftPc = "idle"
    /\ \/ \E answer \in EarlyAnswers(ftVariant) :
            /\ ftResponse' = answer
            /\ ftPc' = "done"
       \/ /\ ftPc' = "methods"
          /\ UNCHANGED ftResponse
    /\ UNCHANGED <<segVars, docVars, runVars, mergeVars, pollVars, llmVars,
                   chunkVars, clipVars, ftVariant, ftPython, ftInvoked>>

\* One pass of `for (const method of methods)`.
FtTry ==
    /\ ftPc = "methods"
    /\ Len(ftInvoked) < Len(Methods(ftVariant, ftPython))
    /\ IF ftInvoked = <<>> THEN TRUE ELSE ~Found(ftInvoked[Len(ftInvoked)].result)
    /\ LET method == Methods(ftVariant, ftPython)[Len(ftInvoked) + 1]
       IN  \E result \in MethodResults(ftVariant, method) :
               ftInvoked' = Append(ftInvoked, [method |-> method, result |-> result])
    /\ UNCHANGED <<segVars, docVars, runVars, mergeVars, pollVars, llmVars,
                   chunkVars, clipVars, ftVariant, ftPython, ftPc, ftResponse>>

\* The loop has ended, by break or at the end of the list: the answer.
FtAnswer ==
    /\ ftPc = "methods"
    /\ ftInvoked # <<>>
    /\ \/ Len(ftInvoked) = Len(Methods(ftVariant, ftPython))
       \/ Found(ftInvoked[Len(ftInvoked)].result)
    /\ ftResponse' = FallbackAnswer(ftVariant, ftPython, ftInvoked)
    /\ ftPc' = "done"
    /\ UNCHANGED <<segVars, docVars, runVars, mergeVars, pollVars, llmVars,
                   chunkVars, clipVars, ftVariant, ftPython, ftInvoked>>

NextFallback == FtRequest \/ FtTry \/ FtAnswer

SpecFallback == InitFallback /\ [][NextFallback]_vars

(***************************************************************************)
(* Properties of the normalization of one segment (SpecSeg).               *)
(***************************************************************************)
Acted == applied # <<>>

Last == applied[Len(applied)]

\* The expected values, written from the statement and not from the code:
\* the unit heuristic without and with the rounding to 3 decimals.
Converted(v) == IF v > MS_THRESHOLD * Scale THEN v \div MS_THRESHOLD ELSE v

UnitHeuristic(v) == Round3(Converted(v))

OnMsGrid(v) == v % Milli = 0

NumericArg == segArg.start.t = "num" /\ segArg.end.t = "num"

\* The end the latest normalization was given lies above a known duration:
\* the transcript route compares with the stored duration, the hook with
\* the duration as the getter returns it.
AboveDuration(e) ==
    /\ Last # "processVideo"
    /\ Truthy(vidDuration)
    /\ \/ e > vidDuration.v
       \/ e > Round3(vidDuration.v)

\* C1, as stated: every raw numeric timestamp v, start or end, in each of
\* the three places, comes out as v/1000 rounded to 3 decimals when
\* v > 1000 and as v rounded to 3 decimals otherwise.
C1_UnitHeuristicEverywhere ==
    Acted =>
        /\ segArg.start.t = "num" => segOut.start = Num(UnitHeuristic(segArg.start.v))
        /\ segArg.end.t = "num" => segOut.end = Num(UnitHeuristic(segArg.end.v))

\* C1, amended: for a raw segment with numeric start v >= 0 and numeric end
\* w, processVideo and the transcript route return start by the unit
\* heuristic, and end by the unit heuristic when the converted end is
\* greater than the converted start and not above a known duration; the
\* pre-save hook converts by the same rule but does not round.
C1_UnitHeuristic ==
    (Acted /\ NumericArg /\ segArg.start.v >= 0) =>
        LET s == Converted(segArg.start.v)
            e == Converted(segArg.end.v)
            kept == e > s /\ ~AboveDuration(e)
        IN  IF Last = "preSave"
            THEN /\ segOut.start = Num(s)
                 /\ kept => segOut.end = Num(e)
            ELSE /\ segOut.start = Num(UnitHeuristic(segArg.start.v))
                 /\ kept => segOut.end = Num(UnitHeuristic(segArg.end.v))

\* C1's case: milliseconds with a fraction, 1500.6 and 2000, come out of
\* processVideo as 1.501 and 2.
C1_Witness ==
    /\ applied = <<"processVideo">>
    /\ segArg.start = Num(1500600000) /\ segArg.end = Sec(2000)
    /\ segOut.start = Num(1501000) /\ segOut.end = Sec(2)

\* C2, as stated, for raw start and end that are numbers of at most 3
\* decimals once converted: the validated segment has end > start and
\* duration = round(end - start, 3), and end <= D when the duration D of
\* the video is known.
C2_ValidatorInvariant ==
    ( /\ Acted /\ NumericArg
      /\ OnMsGrid(Converted(segArg.start.v))
      /\ OnMsGrid(Converted(segArg.end.v)) ) =>
        /\ Gt(segOut.end, segOut.start)
        /\ segOut.duration = ToFixed3(Minus(segOut.end, segOut.start))
        /\ (Last # "processVideo" /\ Truthy(vidDuration)) => Le(segOut.end, vidDuration)

\* C3, as stated: a segment whose start and end are already normalized
\* (3 decimals, 0 <= start < end) comes out of a normalization with the
\* same start and end, and with the duration it had.
AlreadyNormalized(seg) ==
    /\ seg.start.t = "num" /\ seg.end.t = "num"
    /\ OnMsGrid(seg.start.v) /\ OnMsGrid(seg.end.v)
    /\ 0 <= seg.start.v /\ seg.start.v < seg.end.v

SameTimes(a, b) ==
    /\ a.start = b.start
    /\ a.end = b.end
    /\ a.duration = Num(b.end.v - b.start.v)
    /\ b.duration.t # "undef" => a.duration = b.duration

C3_Idempotent == (Acted /\ AlreadyNormalized(segArg)) => SameTimes(segOut, segArg)

\* C3, amended: a segment already normalized with end <= 1000 s, a
\* duration (when it carries one) equal to end - start, and end <= D when
\* the duration D of the video is known, comes out with the same start,
\* end and duration.
C3_IdempotentBelowThreshold ==
    ( /\ Acted
      /\ AlreadyNormalized(segArg)
      /\ segArg.end.v <= MS_THRESHOLD * Scale
      /\ segArg.duration.t # "undef" => segArg.duration = Num(segArg.end.v - segArg.start.v)
      /\ ~AboveDuration(segArg.end.v) )
    => SameTimes(segOut, segArg)

\* C3's case: the transcript route re-normalizes what processVideo made of
\* a segment in milliseconds and leaves it as it is.
C3_Witness ==
    /\ applied = <<"processVideo", "getTranscript">>
    /\ segIn.start = Num(1500600000) /\ segIn.end = Sec(2000)
    /\ segArg.start = Num(1501000) /\ segArg.end = Sec(2)
    /\ segOut.start = Num(1501000) /\ segOut.end = Sec(2)
    /\ segOut.duration = Num(499000)

\* C5, as stated: when the end is clamped to the known duration D and so
\* is not above start, the segment's duration is 0, never negative.
C5_ClampedDurationFloored ==
    ( /\ Acted /\ Last # "processVideo"
      /\ NumericArg
      /\ Truthy(vidDuration)
      /\ segOut.end = ToFixed3(vidDuration)
      /\ Le(segOut.end, segOut.start) )
    => segOut.duration = Num(0)

Missing(x, alt) == (x.t = "undef" /\ alt.t = "undef") \/ x.t \in {"nan", "text"}

C7_BestEffortNumeric ==
    (Acted /\ Last # "preSave") =>
        /\ segOut.start.t = "num"
        /\ segOut.end.t = "num"
        /\ Missing(segArg.start, segArg.startTime) => segOut.start = Num(0)
        /\ Missing(segArg.end, segArg.endTime) => segOut.end = PlusOne(segOut.start)

(***************************************************************************)
(* Properties of the video document (Spec).                                *)
(***************************************************************************)
\* The latest run of processVideo has written its transcript.
Resolved == pvPc = "done" /\ pvOutcome = "resolved"

SamePositions(out, in) ==
    /\ Len(out) = Len(in)
    /\ \A i \in 1..Len(in) : out[i].text = in[i].text

\* C4: validating N raw segments yields N segments in the same order,
\* however many of them were repaired: in what processVideo stores, and in
\* what the transcript route computes from the stored segments.
C4_NoSegmentLoss ==
    /\ Resolved => SamePositions(video.segments, pvTranscript.segments)
    /\ video.hasTranscript =>
           SamePositions(GetSegments(video.segments, video.duration), video.segments)

\* C4's case: an inverted segment and one in milliseconds, both repaired,
\* are stored in their order and the route has gone over them.
C4_Witness ==
    /\ Resolved
    /\ Len(pvTranscript.segments) = 2
    /\ pvTranscript.segments[1].text = "b" /\ pvTranscript.segments[2].text = "c"
    /\ video.segments[1].text = "b" /\ video.segments[1].end = Sec(6)
    /\ video.segments[2].text = "c" /\ video.segments[2].end = Sec(2)
    /\ getStatus = 500

Reported == IF pvTranscript.duration.t = "num" THEN pvTranscript.duration.v ELSE 0

LastEnd == video.segments[Len(video.segments)].end

\* C9, as stated: the stored duration is the larger of the reported
\* duration and the last segment's end.
C9_TotalDurationIsMax ==
    Resolved =>
        video.duration = Num(IF Reported > LastEnd.v THEN Reported ELSE LastEnd.v)

\* C9, amended: the stored duration is the reported duration (divided by
\* 1000 when above 1000, rounded to 3 decimals) when one is reported and
\* not zero, and the last normalized segment's end otherwise.
C9_TotalDuration ==
    Resolved =>
        video.duration = IF Reported # 0 THEN Num(UnitHeuristic(Reported)) ELSE LastEnd

\* C9's case: a reported duration of 1 s below the last end of 2 s is
\* stored as it is.
C9_Witness ==
    /\ Resolved
    /\ pvTranscript.duration = Sec(1)
    /\ LastEnd = Sec(2)
    /\ video.duration = Sec(1)

\* C10: a run whose transcript source returned zero segments leaves the
\* stored transcript alone, does not set status 'processed', and ends
\* rejected with the video's status 'failed'.
EmptyRun ==
    /\ pvGot
    /\ Len(pvTranscript.segments) = 0
    /\ pvPc \in {"generated", "thrown"}

Written == {f \in RecFields : recBy[f] # 0}

\* C11: in every state of the record, under every interleaving of runs and
\* of the upload route's failure handler, status, transcript, duration and
\* error reason were all written by one and the same run.
C11_AtomicReplace == \A f, g \in Written : recBy[f] = recBy[g]

(***************************************************************************)
(* Properties of a failed run (Spec).                                      *)
(***************************************************************************)
Rejected == pvPc = "done" /\ pvOutcome = "rejected"

\* C12: whenever a processVideo run ended by throwing, the record has status
\* 'failed' and stores a reason that holds the message of the causing error.
C12_FailureRecorded ==
    Rejected => video.status = "failed" /\ video.processingError = pvError

(***************************************************************************)
(* Properties of the clips a merge job renders (SpecMerge).                *)
(***************************************************************************)
\* The rules the clip selection is asked to keep: a gap of 0.50 s between
\* clips and a duration of 3.00 to 60.00 s.
MinGapSeconds == Scale \div 2

MinDuration == 3 * Scale

MaxDuration == 60 * Scale

GapKept(prev, next) ==
    /\ prev.endTime.t = "num"
    /\ next.startTime.t = "num"
    /\ next.startTime.v >= prev.endTime.v + MinGapSeconds

\* C13: in every clip list that reaches extraction, any two consecutive
\* clips of the same source video keep the minimum gap:
\* next.startTime >= previous.endTime + 0.5 s.
C13_SchedulerMonotonicity ==
    \A j \in Jobs :
        \A i \in 1..(Len(job[j].extracted) - 1) :
            job[j].extracted[i].path = job[j].extracted[i + 1].path
                => GapKept(job[j].extracted[i], job[j].extracted[i + 1])

DurationKept(d) ==
    /\ d.startTime.t = "num"
    /\ d.endTime.t = "num"
    /\ d.endTime.v - d.startTime.v >= MinDuration
    /\ d.endTime.v - d.startTime.v <= MaxDuration

\* C14: every clip that is extracted and concatenated lasts at least 3.0 s
\* and at most 60.0 s.
C14_SchedulerDurationBounds ==
    \A j \in Jobs :
        \A i \in 1..Len(job[j].extracted) : DurationKept(job[j].extracted[i])

\* A candidate that cannot be rendered: a field is missing or the range is
\* empty or inverted.
BadCandidate(clip) ==
    \/ clip.videoId = ""
    \/ clip.startTime.t # "num"
    \/ clip.endTime.t # "num"
    \/ clip.endTime.v <= clip.startTime.v

\* A batch with at least one good candidate and some bad ones, whose
\* videos are all found.
MixedBatch(clips) ==
    /\ \E i \in 1..Len(clips) : BadCandidate(clips[i])
    /\ \E i \in 1..Len(clips) : ~BadCandidate(clips[i])
    /\ \A i \in 1..Len(clips) : FileResolves(clips[i].videoId)

\* C15: in a batch with at least one valid clip and some invalid ones the
\* invalid clips are dropped one by one and the others are still rendered:
\* the batch is not rejected for a bad clip, and no bad clip is rendered.
C15_FailureIsolation ==
    \A j \in Jobs :
        MixedBatch(job[j].clips) =>
            /\ job[j].error # "Invalid clip"
            /\ \A i \in 1..Len(job[j].extracted) :
                    job[j].extracted[i].startTime.t = "num"
                    /\ job[j].extracted[i].endTime.t = "num"
                    /\ job[j].extracted[i].endTime.v > job[j].extracted[i].startTime.v

\* C16: whatever the order in which the lookups of the clips complete, one
\* extraction is issued per clip and the i-th entry of the concatenation (the
\* i-th line of the concat list, the i-th input of ffmpeg) is the extraction
\* of the i-th clip of the list handed in: none skipped, doubled or moved.
C16_RenderOrder ==
    \A j \in Jobs :
        /\ \A i \in 1..Len(job[j].extracted) :
               /\ i <= Len(job[j].clips)
               /\ job[j].extracted[i] = Detail(job[j].clips[i])
        /\ job[j].started =>
               /\ Len(job[j].extracted) = Len(job[j].clips)
               /\ Len(job[j].inputs) = Len(job[j].clips)
               /\ \A i \in 1..Len(job[j].clips) :
                      job[j].inputs[i] = Detail(job[j].clips[i])

\* The concatenation of two different clips has started after the lookup
\* of the second clip completed before that of the first.
C16_Witness ==
    \E j \in Jobs :
        /\ job[j].started
        /\ Len(job[j].clips) >= 2
        /\ job[j].clips[1] # job[j].clips[2]
        /\ job[j].order[1] = 2

\* A batch with a clip whose video has no record, or whose file is at none
\* of the places resolveVideoPath tries (part_002 resolves no path).
Unresolved(clips) ==
    \E i \in 1..Len(clips) :
        \/ ~VideoExists(clips[i].videoId)
        \/ mjVariant # "part_002" /\ ~FileResolves(clips[i].videoId)

C18_GuaranteedCleanup ==
    \A j \in Jobs :
        (job[j].pc = "settled" /\ job[j].made) => job[j].dir \notin fsDirs

(***************************************************************************)
(* Properties of concurrent merge jobs (SpecJobs).                         *)
(***************************************************************************)
\* The job has created its directory and its promise has not settled.
Running(j) == job[j].made /\ job[j].pc # "settled"

\* C19: any two merge jobs that run at the same time have distinct
\* temporary directories, so that the directory of a running job exists
\* until that job removes it.
C19_ExclusiveWorkingDirectory ==
    /\ \A j, k \in Jobs :
           (j # k /\ Running(j) /\ Running(k)) => job[j].dir # job[k].dir
    /\ \A j \in Jobs : Running(j) => job[j].dir \in fsDirs

(***************************************************************************)
(* Properties of the poll loop (SpecPoll).                                 *)
(***************************************************************************)
\* The call has left the loop in one of the three ways, the timeout only
\* after more than the bound has elapsed.
PollLeft ==
    /\ pollPc = "done"
    /\ pollOutcome \in {"completed", "error", "timeout"}
    /\ pollOutcome = "timeout" => pollElapsed > POLL_TIMEOUT

\* C20: whatever statuses the provider returns, also when none is ever
\* 'completed' or 'error', the poll loop is left, as completed, as a
\* provider error, or as a timeout after the 10 minutes have elapsed.
C20_PollTerminates == <>PollLeft

\* The loop was left by the timeout.
C20_Witness == pollPc = "done" /\ pollOutcome = "timeout"

\* C21: when the poll loop ends by timeout, the error thrown to the caller
\* is of a kind of its own, which no error of the provider has.
C21_TimeoutDistinct ==
    pollOutcome = "timeout" =>
        \A m \in ProviderErrors : pollThrown.name # Rewrap(JsError(m)).name

(***************************************************************************)
(* Properties of callGeminiWithRetry (SpecLlm).                            *)
(***************************************************************************)
\* The errors that report a rate limit or a used-up quota.
RateLimitErrors ==
    { "[429 Too Many Requests] Resource has been exhausted (e.g. check quota).",
      "[429 Too Many Requests] rate limit exceeded" }

\* The attempts made so far that have ended.
Attempts == Len(llmFailed) + (IF llmResult.kind = "returned" THEN 1 ELSE 0)

\* C22: at most maxRetries + 1 attempts are made; a retry follows only an
\* error of rate limit or quota, after a wait of 2^k seconds before retry
\* k + 1; an error of another kind is thrown at once.
C22_BoundedRetry ==
    /\ Attempts <= MAX_RETRIES + 1
    /\ \A k \in 1..Len(llmWaits) :
           /\ llmWaits[k] = Pow2(k - 1) * 1000
           /\ llmFailed[k] \in RateLimitErrors

\* C26: a call that has ended has returned the text of a successful attempt
\* or has thrown the error of its last attempt, never undefined; when all
\* maxRetries + 1 attempts have failed the call has ended with the last error.
C26_TwoOutcomes ==
    /\ llmResult.kind # "undefined"
    /\ llmPc = "done" =>
           \/ llmResult.kind = "returned" /\ llmResult.value \in LlmTexts
           \/ /\ llmResult.kind = "thrown"
              /\ llmFailed # <<>>
              /\ llmResult.value = llmFailed[Len(llmFailed)]
    /\ Len(llmFailed) = MAX_RETRIES + 1 =>
           llmPc = "done" /\ llmResult.kind = "thrown"

\* Every attempt failed with a rate-limit error and the last one was thrown.
C26_Witness ==
    /\ llmPc = "done"
    /\ Len(llmFailed) = MAX_RETRIES + 1
    /\ \A k \in 1..Len(llmFailed) : llmFailed[k] \in RateLimitErrors
    /\ llmResult = Thrown(llmFailed[MAX_RETRIES + 1])

(***************************************************************************)
(* The 30-minute timer of the merge (SpecMerge).                           *)
(***************************************************************************)
\* C23: when the timer of a started merge has fired, ffmpeg has been killed
\* and the job is not lost: it is settled or still on its way to settling.
C23_HardKill ==
    \A j \in Jobs :
        job[j].timedOut => job[j].killed /\ job[j].pc # "crashed"

(***************************************************************************)
(* Properties of createTokenAwareChunks (SpecChunks).                      *)
(***************************************************************************)
RECURSIVE Flatten(_)
\* The chunks one after the other.
Flatten(chunks) ==
    IF chunks = <<>> THEN <<>> ELSE Head(chunks) \o Flatten(Tail(chunks))

\* C25: the chunks returned, taken in order, are the input list, and none
\* of them is empty.
C25_ChunksPartition ==
    ckPc = "returned" =>
        /\ Flatten(ckChunks) = ckTranscripts
        /\ \A c \in 1..Len(ckChunks) : ckChunks[c] # <<>>

\* A transcript over the limit came while a chunk was in hand.
C25_Witness ==
    /\ ckPc = "returned"
    /\ Len(ckChunks) >= 2
    /\ \E i \in 2..Len(ckTranscripts) :
           /\ CountTokens(ckTranscripts[i]) > ckLimit - RESERVED_TOKENS
           /\ CountTokens(ckTranscripts[i - 1]) <= ckLimit - RESERVED_TOKENS

(***************************************************************************)
(* Properties of generateClips (SpecClips).                                *)
(***************************************************************************)
RECURSIVE Compact(_, _)
\* s from i on without its white space.
Compact(s, i) ==
    IF i > Len(s) THEN ""
    ELSE IF Char(s, i) = " " THEN Compact(s, i + 1)
    ELSE Char(s, i) \o Compact(s, i + 1)

RECURSIVE ClipsThenClose(_, _)
\* From i on, s is `{}` then `,{}` any number of times, then `]`.
ClipsThenClose(s, i) ==
    /\ i + 2 <= Len(s)
    /\ SubSeq(s, i, i + 1) = "{}"
    /\ \/ i + 2 = Len(s) /\ Char(s, i + 2) = "]"
       \/ Char(s, i + 2) = "," /\ ClipsThenClose(s, i + 3)

\* s is a well-formed JSON array of clip objects.
IsClipArray(s) ==
    LET c == Compact(s, 1)
    IN  c = "[]" \/ (Len(c) >= 1 /\ Char(c, 1) = "[" /\ ClipsThenClose(c, 2))

\* C24: a 200 carries a script that is a well-formed JSON array of clip
\* objects taken from the response to the last chunk; every other answer
\* carries no script.
C24_OnlyClipArray ==
    \A k \in 1..Len(gcResponses) :
        IF gcResponses[k].status = 200
        THEN /\ IsClipArray(gcResponses[k].script)
             /\ Includes(gcSeen[Len(gcSeen)].value, gcResponses[k].script)
        ELSE gcResponses[k].script = ""

\* C27: a request that has ended got exactly one response, a 200, a 400 or
\* a 500; one that has not ended got none, so that no chunk is handled
\* after a response; and the request ends at a chunk only when the call
\* for it threw or it is the last one, whatever the earlier chunks gave.
C27_ExactlyOneResponse ==
    /\ Len(gcResponses) <= 1
    /\ gcPc = "done" =>
           Len(gcResponses) = 1 /\ gcResponses[1].status \in {200, 400, 500}
    /\ gcPc # "done" => gcResponses = <<>>
    /\ Len(gcSeen) <= Len(gcChunks)
    /\ \A k \in 1..Len(gcSeen) :
           k < Len(gcSeen) => gcSeen[k].kind = "returned"
    /\ gcPc = "done" /\ gcSeen # <<>> =>
           \/ gcSeen[Len(gcSeen)].kind = "thrown"
           \/ Len(gcSeen) = Len(gcChunks)

\* A 200 after an earlier chunk whose response held no segment to parse.
C27_Witness ==
    /\ gcPc = "done"
    /\ Len(gcResponses) = 1
    /\ gcResponses[1].status = 200
    /\ \E k \in 1..(Len(gcSeen) - 1) :
           /\ gcSeen[k].kind = "returned"
           /\ ~RegexMatch(gcSeen[k].value).found

(***************************************************************************)
(* The validation of the clips (SpecMerge).                                *)
(***************************************************************************)
\* A clip with a videoId and numeric times, 0 <= startTime < endTime.
CompleteClip(clip) ==
    /\ clip.videoId # ""
    /\ clip.startTime.t = "num"
    /\ clip.endTime.t = "num"
    /\ 0 <= clip.startTime.v
    /\ clip.startTime.v < clip.endTime.v

\* C28: a batch whose clips all have a videoId and numeric times with
\* 0 <= startTime < endTime, a start at 0 included, is not rejected as
\* having a clip with a missing field.
C28_StartZeroAccepted ==
    \A j \in Jobs :
        (\A i \in 1..Len(job[j].clips) : CompleteClip(job[j].clips[i])) =>
            ~(job[j].outcome = "rejected" /\ job[j].error = "Invalid clip")

(***************************************************************************)
(* The failure reason of a processed video (SpecRuns).                     *)
(***************************************************************************)
\* C30: a video record whose status is 'processed' carries no processing
\* error, whatever runs of processVideo came before.
C30_NoStaleError ==
    rec.status = "processed" => rec.processingError = ""

(***************************************************************************)
(* Properties of getTranscript (SpecFallback).                             *)
(***************************************************************************)
\* C29: the answer 404 'no transcript available' is given only when every
\* method reported as tried, and every configured method, was invoked and
\* none gave a non-empty transcript, an earlier empty list included.
C29_FallbackExhaustive ==
    ftResponse.status = 404 /\ ftResponse.message = "No transcript available" =>
        /\ ftResponse.tried \subseteq Attempted(ftInvoked)
        /\ Len(ftInvoked) = Len(Methods(ftVariant, ftPython))
        /\ \A k \in 1..Len(ftInvoked) : ftInvoked[k].result.data # "segments"

====
